---------------------------- MODULE Spec2Model ----------------------------
(***************************************************************************)
(* State-machine model of the NeuroCore decision core:                     *)
(*   utils/optimization.py      optimize_profit  (SLSQP profit optimizer)  *)
(*   utils/strategy_simulator.py simulate_strategy                         *)
(*   pages/05_Optimization.py   the Profit Optimization page               *)
(*   pages/04_Strategy_Simulator.py  the Strategy Simulator page           *)
(*   pages/02_Churn_Prediction.py    the Churn Prediction page             *)
(*   utils/insights.py, utils/visualization.py  the risk bands             *)
(*                                                                         *)
(* Three specifications share the definitions of the two functions:        *)
(*   Spec      one call of either function, step by step;                  *)
(*   PageSpec  script runs of the Profit Optimization page in one          *)
(*             browser session;                                            *)
(*   ConcSpec  several callers whose calls interleave;                     *)
(*   SimPageSpec   script runs of the Strategy Simulator page;             *)
(*   ChurnSpec     script runs of the Churn Prediction page;               *)
(*   BandSpec      the three places that sort a risk score into bands.     *)
(*                                                                         *)
(* Numbers.  The code computes on floats; the model computes on exact      *)
(* fixed-point integers:                                                   *)
(*   - percentages and head counts (the decision vector x) are held in     *)
(*     thousandths (Milli units per 1.0);                                  *)
(*   - money arguments (base_revenue, base_cost, budget_limit,             *)
(*     retention_investment) are held in units of $10,000;                 *)
(*   - computed money is held in units of $10,000 / MoneyScale = $0.05,    *)
(*     which makes every product of the formulas an exact integer;         *)
(*   - risk is held in units of 1 / RiskScale = 0.0001;                    *)
(*   - returned (rounded) values are held in the unit round() leaves them  *)
(*     in: cents, hundredths of a percent, tenths of a risk point.         *)
(* round() is Python's round-half-to-even, applied to the exact value.     *)
(***************************************************************************)
EXTENDS Integers, Sequences, FiniteSets

VARIABLES
    pc,      \* position of the one call in flight
    fn,      \* which entry point was called
    args,    \* the arguments of the call
    result,  \* scipy's OptimizeResult (success, x, message) after minimize
    ret,     \* the dictionary returned to the caller
    solves,  \* the starting points minimize was called with during the call
    session_state,  \* st.session_state of the Optimization page's session
    rendered,       \* what the page's last script run put on the screen
    opt_call,       \* the arguments of the call that returned the stored opt_result
    calls,   \* ConcSpec: every caller's own pc, fn, args, result and ret
    slsqp,   \* ConcSpec: the solver's answers so far, as (args, result) pairs
    sim_session,    \* st.session_state of the Strategy Simulator page's session
    sim_rendered,   \* what that page's last script run put on the screen
    churn_session,  \* st.session_state of the Churn Prediction page's session
    churn_rendered, \* what that page's last script run put on the screen
    band     \* BandSpec: the last score given to each place and what it made of it

callvars == <<pc, fn, args, result, ret, solves>>

pagevars == <<session_state, rendered, opt_call>>

concvars == <<calls, slsqp>>

simpagevars == <<sim_session, sim_rendered>>

churnvars == <<churn_session, churn_rendered>>

uivars == <<simpagevars, churnvars, band>>

vars == <<callvars, pagevars, concvars, uivars>>

None == "None"
(* a result.x that holds no finite number *)
NaN == <<>>

----------------------------------------------------------------------------
(* Fixed-point scales *)

Milli == 1000
MoneyScale == 2 * 100 * Milli
RiskScale == 10 * Milli

Abs(n) == IF n < 0 THEN -n ELSE n

Min(a, b) == IF a <= b THEN a ELSE b

(* round(n / d) for d > 0, ties to the even neighbour: Python's round(). *)
RoundHalfEven(n, d) ==
    LET q == n \div d
        r == n % d
    IN  IF 2 * r < d THEN q
        ELSE IF 2 * r > d THEN q + 1
        ELSE IF q % 2 = 0 THEN q ELSE q + 1

(* round(v, 2) of a money value held in $0.05 units: the result in cents. *)
RoundMoney(v) ==
    (v \div 20) * 100 + RoundHalfEven((v % 20) * 100, 20)

----------------------------------------------------------------------------
(* optimize_profit: the model formulas (closures over the arguments a) *)

avg_emp_cost == 6

(* marketing lifting revenue one for one, without the 0.5 elasticity *)
OptRevenueFullElasticity(a, x) ==
    MoneyScale * a.base_revenue + 2 * a.base_revenue * x[1] + 2 * a.base_revenue * x[2]

(* revenue of _profit_objective and of the final projection, in $0.05:
   base_revenue + base_revenue*(mktg/100)*0.5 + base_revenue*(price/100) *)
OptRevenue(a, x) ==
    MoneyScale * a.base_revenue + a.base_revenue * x[1] + 2 * a.base_revenue * x[2]

(* new hires costing nothing *)
OptCostHiresFree(a, x) == MoneyScale * a.base_cost + 2 * a.base_cost * x[1]

(* cost: base_cost + base_cost*(mktg/100) + hires*avg_emp_cost *)
OptCost(a, x) ==
    MoneyScale * a.base_cost + 2 * a.base_cost * x[1]
        + (MoneyScale \div Milli) * avg_emp_cost * x[3]

(* revenue rising with the size of the price change, cut or increase *)
profit_objective_abs_price(a, x) ==
    -(MoneyScale * a.base_revenue + a.base_revenue * x[1]
          + 2 * a.base_revenue * Abs(x[2]) - OptCost(a, x))

(* the sign forgotten: the solver is handed the profit itself *)
profit_objective_unnegated(a, x) == OptRevenue(a, x) - OptCost(a, x)

profit_objective(a, x) == -(OptRevenue(a, x) - OptCost(a, x))

(* abs(mktg)*0.4 + abs(price)*1.2 + hires*0.3, in 0.0001 *)
OptRisk(x) == 4 * Abs(x[1]) + 12 * Abs(x[2]) + 3 * x[3]

risk_constraint(a, x) == RiskScale * a.risk_threshold - OptRisk(x)

AdditionalSpend(a, x) ==
    2 * a.base_cost * x[1] + (MoneyScale \div Milli) * avg_emp_cost * x[3]

budget_constraint(a, x) == MoneyScale * a.budget_limit - AdditionalSpend(a, x)

(* a starting point without the two hires *)
x0_no_hires == <<5 * Milli, 2 * Milli, 0>>

x0 == <<5 * Milli, 2 * Milli, 2 * Milli>>

(* the price range of the simulator page, -10..20, used for the optimizer *)
bounds_price_20 == <<<<0, 50 * Milli>>, <<-10 * Milli, 20 * Milli>>, <<0, 50 * Milli>>>>

bounds == <<<<0, 50 * Milli>>, <<-10 * Milli, 15 * Milli>>, <<0, 50 * Milli>>>>

----------------------------------------------------------------------------
(* scipy.optimize.minimize(method="SLSQP", bounds, constraints, ftol, maxiter)

   The solver is a library outside the repository.  The model keeps what the
   call asks of it and leaves the rest open:
     - result.success = True: result.x lies inside `bounds` and is, up to
       the solver's tolerance, a local minimum of _profit_objective over the
       points where both "ineq" constraint functions are >= 0;
     - result.success = False: result.x is the last iterate, any point or
       not a number, and result.message names the reason;
     - either outcome is possible for every input.
   The tolerance is one step of the grid (0.001), the smallest deviation the
   model can express; the rounding steps of the code are 0.01 and 1. *)

SolverTol == 1

MoveRadius == 3

InBounds(x) == \A i \in 1..3 : bounds[i][1] <= x[i] /\ x[i] <= bounds[i][2]

Clip(v, i) == IF v < bounds[i][1] THEN bounds[i][1]
              ELSE IF v > bounds[i][2] THEN bounds[i][2] ELSE v

(* the "ineq" constraints read as strict: fun(x) > 0 *)
FeasibleStrict(a, x) == risk_constraint(a, x) > 0 /\ budget_constraint(a, x) > 0

Feasible(a, x) == risk_constraint(a, x) >= 0 /\ budget_constraint(a, x) >= 0

Shifts(r) == {d \in (-r..r) \X (-r..r) \X (-r..r) : d # <<0, 0, 0>>}

Plus(x, d) == <<x[1] + d[1], x[2] + d[2], x[3] + d[3]>>

(* no feasible point of the box within MoveRadius steps has a lower objective *)
LocalMinimum(a, x) ==
    /\ InBounds(x)
    /\ Feasible(a, x)
    /\ \A d \in Shifts(MoveRadius) :
          LET y == Plus(x, d)
          IN  (InBounds(y) /\ Feasible(a, y))
                  => profit_objective(a, y) >= profit_objective(a, x)

(* The points the model offers the solver: the corners of the box, the
   starting point, and the places where a constraint meets the box. *)
PBreaks(a, m) ==
    {Clip(v, 2) : v \in
        {bounds[2][1], 0, x0[2], bounds[2][2],
         (RiskScale * a.risk_threshold - 4 * m) \div 12,
         -((RiskScale * a.risk_threshold - 4 * m) \div 12)}}

MBreaks(a) ==
    {Clip(v, 1) : v \in
        {bounds[1][1], x0[1], bounds[1][2],
         (MoneyScale * a.budget_limit) \div (2 * a.base_cost)}
        \cup {(RiskScale * a.risk_threshold - 12 * Abs(p)) \div 4 :
                  p \in PBreaks(a, 0)}}

HBreaks == {bounds[3][1], x0[3], bounds[3][2]}

Candidates(a) ==
    UNION {{<<m, p, h>> : p \in PBreaks(a, m), h \in HBreaks} : m \in MBreaks(a)}

Near(x) == {y \in {Plus(x, d) : d \in Shifts(SolverTol)} \cup {x} : InBounds(y)}

Converged(a) == UNION {Near(x) : x \in {c \in Candidates(a) : LocalMinimum(a, c)}}

SuccessMessage == "Optimization terminated successfully"

FailureMessages == {"Iteration limit reached",
                    "Positive directional derivative for linesearch"}

minimize(a) ==
    {[success |-> TRUE, x |-> y, message |-> SuccessMessage] : y \in Converged(a)}
    \cup
    {[success |-> FALSE, x |-> y, message |-> m] :
        y \in Candidates(a) \cup {NaN}, m \in FailureMessages}

----------------------------------------------------------------------------
(* optimize_profit: fallback, final projection and the returned dictionary *)

(* the solver's point used whatever result.success says *)
ChosenPointNoFallback(r) == r.x

(* if not result.success: x0 else result.x *)
ChosenPoint(r) == IF ~r.success THEN x0 ELSE r.x

(* int(round(float(opt_hires))) raises ValueError on a NaN *)
Raises(r) == ChosenPoint(r) = NaN

(* head count rounded up to whole people *)
HiringCountCeiling(h) == (h + Milli - 1) \div Milli

(* int(round(float(opt_hires))) *)
HiringCount(h) == RoundHalfEven(h, Milli)

(* opt_risk = min(100, ...) and its round(opt_risk, 1), in tenths *)
OptRiskScore(x) ==
    RoundHalfEven(Min(100 * RiskScale, OptRisk(x)), RiskScale \div 10)

OptimizeResult(a, r) ==
    LET x == ChosenPoint(r)
        opt_revenue == OptRevenue(a, x)
        opt_cost == OptCost(a, x)
        opt_profit == opt_revenue - opt_cost
    IN  [optimized_marketing_increase_pct |-> RoundHalfEven(x[1], Milli \div 100),
         optimized_price_change_pct |-> RoundHalfEven(x[2], Milli \div 100),
         optimized_hiring_count |-> HiringCount(x[3]),
         projected_revenue |-> RoundMoney(opt_revenue),
         projected_cost |-> RoundMoney(opt_cost),
         projected_profit |-> RoundMoney(opt_profit),
         risk_score |-> OptRiskScore(x),
         optimizer_success |-> r.success,
         optimizer_message |-> r.message]

----------------------------------------------------------------------------
(* simulate_strategy.  A call's arguments: base_revenue, base_cost and
   retention_investment in $10,000, the two percentages in thousandths,
   employee_hiring_count and avg_employee_cost ($10,000) as given,
   churn_rate in hundredths. *)

(* the retention lift taken as investment * 3, the churn rate left out *)
SimRevenueNoChurn(a) ==
    MoneyScale * a.base_revenue + a.base_revenue * a.marketing_increase_percent
        + 2 * a.base_revenue * a.price_change_percent
        + MoneyScale * a.retention_investment * 3

SimRevenue(a) ==
    LET marketing_revenue_lift == a.base_revenue * a.marketing_increase_percent
        pricing_revenue_impact == 2 * a.base_revenue * a.price_change_percent
        retention_revenue_lift ==
            (MoneyScale \div 100) * a.retention_investment * 3 * a.churn_rate
    IN  MoneyScale * a.base_revenue + marketing_revenue_lift
            + pricing_revenue_impact + retention_revenue_lift

(* hiring cost charged for one employee more than asked for *)
SimCostOneMoreHire(a) ==
    LET marketing_cost_increase == 2 * a.base_cost * a.marketing_increase_percent
        hiring_cost == MoneyScale * (a.employee_hiring_count + 1) * a.avg_employee_cost
    IN  MoneyScale * a.base_cost + marketing_cost_increase + hiring_cost
            + MoneyScale * a.retention_investment

SimCost(a) ==
    LET marketing_cost_increase == 2 * a.base_cost * a.marketing_increase_percent
        hiring_cost == MoneyScale * a.employee_hiring_count * a.avg_employee_cost
    IN  MoneyScale * a.base_cost + marketing_cost_increase + hiring_cost
            + MoneyScale * a.retention_investment

(* round(n / d * 10^k) for n >= 0, d > 0, one decimal digit at a time *)
RECURSIVE ScaledQuotient(_, _, _, _)
ScaledQuotient(q, r, d, k) ==
    IF k = 0
    THEN IF 2 * r < d THEN q
         ELSE IF 2 * r > d THEN q + 1
         ELSE IF q % 2 = 0 THEN q ELSE q + 1
    ELSE ScaledQuotient(10 * q + (10 * r) \div d, (10 * r) % d, d, k - 1)

(* round(n / d * 100, 2) in hundredths of a percent, d > 0 *)
RoundRatioPercent(n, d) ==
    IF n >= 0 THEN ScaledQuotient(n \div d, n % d, d, 4)
    ELSE -ScaledQuotient((-n) \div d, (-n) % d, d, 4)

(* return on revenue: the revenue delta over the incremental investment *)
SimRoiOnRevenue(a) ==
    LET incremental_investment == SimCost(a) - MoneyScale * a.base_cost
    IN  IF incremental_investment > 0
        THEN RoundRatioPercent(SimRevenue(a) - MoneyScale * a.base_revenue,
                               incremental_investment)
        ELSE 0

(* the guard taken as "incremental_investment != 0": a ratio is reported
   for a negative investment too *)
SimRoiNonZeroGuard(a) ==
    LET base_profit == MoneyScale * a.base_revenue - MoneyScale * a.base_cost
        projected_profit == SimRevenue(a) - SimCost(a)
        incremental_investment == SimCost(a) - MoneyScale * a.base_cost
    IN  IF incremental_investment > 0
        THEN RoundRatioPercent(projected_profit - base_profit, incremental_investment)
        ELSE IF incremental_investment < 0
        THEN RoundRatioPercent(base_profit - projected_profit, -incremental_investment)
        ELSE 0

(* roi: (projected_profit - base_profit) / incremental_investment * 100
   if incremental_investment > 0 else 0.0, then round(roi, 2) *)
SimRoi(a) ==
    LET base_profit == MoneyScale * a.base_revenue - MoneyScale * a.base_cost
        projected_profit == SimRevenue(a) - SimCost(a)
        incremental_investment == SimCost(a) - MoneyScale * a.base_cost
    IN  IF incremental_investment > 0
        THEN RoundRatioPercent(projected_profit - base_profit, incremental_investment)
        ELSE 0

(* the retention term taken per $1,000 instead of per $10,000 *)
SimRiskRawPerThousand(a) ==
    4 * Abs(a.marketing_increase_percent) + 12 * Abs(a.price_change_percent)
        + 3 * Milli * a.employee_hiring_count
        + 5 * RiskScale * a.retention_investment

(* |mktg|*0.4 + |price|*1.2 + hires*0.3 + (retention/10_000)*0.5 *)
SimRiskRaw(a) ==
    4 * Abs(a.marketing_increase_percent) + 12 * Abs(a.price_change_percent)
        + 3 * Milli * a.employee_hiring_count
        + (RiskScale \div 2) * a.retention_investment

(* risk_score = min(100, ...) *)
SimRisk(a) == Min(100 * RiskScale, SimRiskRaw(a))

simulate_strategy(a) ==
    LET base_profit == MoneyScale * a.base_revenue - MoneyScale * a.base_cost
        projected_revenue == SimRevenue(a)
        projected_cost == SimCost(a)
        projected_profit == projected_revenue - projected_cost
    IN  [base_revenue |-> RoundMoney(MoneyScale * a.base_revenue),
         base_cost |-> RoundMoney(MoneyScale * a.base_cost),
         base_profit |-> RoundMoney(base_profit),
         projected_revenue |-> RoundMoney(projected_revenue),
         projected_cost |-> RoundMoney(projected_cost),
         projected_profit |-> RoundMoney(projected_profit),
         revenue_delta |-> RoundMoney(projected_revenue - MoneyScale * a.base_revenue),
         cost_delta |-> RoundMoney(projected_cost - MoneyScale * a.base_cost),
         profit_delta |-> RoundMoney(projected_profit - base_profit),
         roi_percent |-> SimRoi(a),
         risk_score |-> RoundHalfEven(SimRisk(a), RiskScale \div 10)]

----------------------------------------------------------------------------
(* Arguments the callers are drawn from.  Neither entry point restricts its
   arguments, and the pages' number_input fields set no minimum: a baseline
   of 0 and a negative retention_investment are inputs like any other. *)

BaseRevenues == {0, 500, 1000}

BaseCosts == {400, 700}

BudgetLimits == {0, 3, 32, 100, 1000}

RiskThresholds == {0, 5, 11, 50, 100}

OptimizeArgs ==
    [base_revenue : BaseRevenues, base_cost : BaseCosts,
     budget_limit : BudgetLimits, risk_threshold : RiskThresholds]

MarketingPercents == {0, 10 * Milli, 50 * Milli}

PricePercents == {-10 * Milli, 0, 5 * Milli, 20 * Milli}

HiringCounts == {0, 5, 50}

RetentionInvestments == {-100, 0, 10}

ChurnRates == {1, 15, 40}

SimulateArgs ==
    [base_revenue : BaseRevenues, base_cost : BaseCosts,
     marketing_increase_percent : MarketingPercents,
     price_change_percent : PricePercents,
     employee_hiring_count : HiringCounts,
     retention_investment : RetentionInvestments,
     avg_employee_cost : {avg_emp_cost},
     churn_rate : ChurnRates]

----------------------------------------------------------------------------
(* pages/05_Optimization.py.  A script run reads the sidebar widgets, calls
   optimize_profit when the button was pressed or nothing is stored, and
   renders the stored result against the widgets of this run. *)

PageBaseRevenues == {1000}

PageBaseCosts == {400, 700}

PageBudgetLimits == {100}

PageRiskThresholds == {11, 50}

PageArgs ==
    [base_revenue : PageBaseRevenues, base_cost : PageBaseCosts,
     budget_limit : PageBudgetLimits, risk_threshold : PageRiskThresholds]

(* st.session_state, a dictionary, as its set of (key, value) entries *)
Has(ss, k) == \E e \in ss : e.key = k

Get(ss, k) == (CHOOSE e \in ss : e.key = k).value

Put(ss, k, v) == {e \in ss : e.key # k} \cup {[key |-> k, value |-> v]}

NothingRendered ==
    [error |-> FALSE, status_icon |-> None, interpretation |-> None,
     profit_improvement |-> 0, risk_threshold |-> 0]

(* st.error(f"Optimization failed: {exc}") and st.stop() *)
RenderedError == [NothingRendered EXCEPT !.error = TRUE]

(* the "if result:" block: the status line, then the interpretation, which
   compares projected_profit with the base profit of this run's widgets;
   profit_improvement in cents *)
Render(w, r) ==
    LET base_profit == 1000000 * (w.base_revenue - w.base_cost)
        profit_improvement == r.projected_profit - base_profit
    IN  [error |-> FALSE,
         status_icon |-> IF r.optimizer_success THEN "check_mark" ELSE "warning_sign",
         interpretation |-> IF profit_improvement > 0 THEN "st.success" ELSE "st.warning",
         profit_improvement |-> profit_improvement,
         risk_threshold |-> w.risk_threshold]

----------------------------------------------------------------------------
(* Several callers, for instance the sessions of the dashboard, each making
   one call.  The solver computes its answer from its arguments alone: what
   it answered for given arguments is what it answers for them again. *)

Callers == {"session_a", "session_b"}

ConcOptimizeArgs ==
    [base_revenue : {1000}, base_cost : {700},
     budget_limit : {100}, risk_threshold : {50}]

ConcSimulateArgs ==
    [base_revenue : {1000}, base_cost : {700},
     marketing_increase_percent : {10 * Milli},
     price_change_percent : {0, 5 * Milli},
     employee_hiring_count : {5},
     retention_investment : {10},
     avg_employee_cost : {avg_emp_cost},
     churn_rate : {15}]

NoCall == [pc |-> "idle", fn |-> None, args |-> None, result |-> None, ret |-> None]

----------------------------------------------------------------------------
(* The risk bands: utils/insights.py, utils/visualization.py and the risk
   interpretation of pages/04_Strategy_Simulator.py.  Scores in tenths, as
   round(risk_score, 1) leaves them. *)

classify_risk(score) ==
    IF score < 20 * 10 THEN "Low"
    ELSE IF score < 40 * 10 THEN "Moderate"
    ELSE IF score < 65 * 10 THEN "High"
    ELSE "Critical"

(* the risk part of generate_executive_insights: risk_level, and whether
   the Risk Committee item is among the action_items *)
generate_executive_insights(risk_score) ==
    LET risk_level == classify_risk(risk_score)
    IN  [risk_level |-> risk_level,
         risk_committee_item |-> risk_level \in {"High", "Critical"}]

(* COLORS["success"], COLORS["warning"], "#FF8C00", COLORS["danger"] *)
risk_color(score) ==
    IF score < 20 * 10 THEN "#00F5A0"
    ELSE IF score < 40 * 10 THEN "#FFC107"
    ELSE IF score < 65 * 10 THEN "#FF8C00"
    ELSE "#FF4B4B"

(* the gauge of risk_gauge: the bar colour and the four background steps *)
risk_gauge(risk_score) ==
    [bar_color |-> risk_color(risk_score),
     steps |-> {<<0, 20 * 10>>, <<20 * 10, 40 * 10>>,
                <<40 * 10, 65 * 10>>, <<65 * 10, 100 * 10>>}]

(* the page's message switching above 40 and above 65, not at them *)
risk_message_strict(risk) ==
    IF risk > 65 * 10 THEN "Critical"
    ELSE IF risk > 40 * 10 THEN "Elevated"
    ELSE "Acceptable"

(* the Strategy Simulator page's risk message *)
risk_message(risk) ==
    IF risk >= 65 * 10 THEN "Critical"
    ELSE IF risk >= 40 * 10 THEN "Elevated"
    ELSE "Acceptable"

RiskScores ==
    {-500, 0, 199, 200, 201, 399, 400, 401, 500, 649, 650, 651, 1000}

----------------------------------------------------------------------------
(* pages/04_Strategy_Simulator.py.  A script run reads the sidebar, calls
   simulate_strategy when the button was pressed or nothing is stored, and
   renders the stored result. *)

SimPageArgs ==
    [base_revenue : {1000}, base_cost : {700},
     marketing_increase_percent : {0, 50 * Milli},
     price_change_percent : {-10 * Milli, 5 * Milli, 20 * Milli},
     employee_hiring_count : {0, 50},
     retention_investment : {0, 200},
     avg_employee_cost : {avg_emp_cost},
     churn_rate : {15}]

NothingSimulated ==
    [inputs |-> None, roi_message |-> None, risk_message |-> None,
     bar_color |-> None]

(* the "if result:" block: the ROI interpretation (roi_percent in
   hundredths), the gauge and the risk interpretation *)
SimRender(w, r) ==
    [inputs |-> w,
     roi_message |-> IF r.roi_percent > 20 * 100 THEN "Strong ROI"
                     ELSE IF r.roi_percent > 0 THEN "Moderate ROI"
                     ELSE "Negative ROI",
     risk_message |-> risk_message(r.risk_score),
     bar_color |-> risk_gauge(r.risk_score).bar_color]

----------------------------------------------------------------------------
(* pages/02_Churn_Prediction.py.  The dataset and the metrics are stood for
   by the number of samples they were made from: generate_churn_data and
   train_churn_model are seeded. *)

ChurnSamples == {500 * k : k \in 1..10}

load_churn(n) == [n_samples |-> n]

(* the metrics train_churn_model returns, a non-empty dictionary *)
train_churn_model(df) == [trained_on |-> df.n_samples]

NothingTrained ==
    [error |-> FALSE, n_samples |-> 0, metrics_of |-> 0,
     preview |-> "nothing", preview_of |-> 0]

(* st.error(f"Training failed: {exc}") and st.stop(), below the sidebar *)
ChurnRenderedError(n) ==
    [NothingTrained EXCEPT !.error = TRUE, !.n_samples = n]

(* metrics = get("churn_result"); df = get("churn_data"); the "if metrics:"
   block ends with st.dataframe(df.head(20)), an AttributeError when df is
   None *)
ChurnRender(n, ss) ==
    IF ~Has(ss, "churn_result")
    THEN [NothingTrained EXCEPT !.n_samples = n]
    ELSE [error |-> FALSE,
          n_samples |-> n,
          metrics_of |-> Get(ss, "churn_result").trained_on,
          preview |-> IF Has(ss, "churn_data") THEN "dataframe" ELSE "AttributeError",
          preview_of |-> IF Has(ss, "churn_data")
                         THEN Get(ss, "churn_data").n_samples ELSE 0]

----------------------------------------------------------------------------
(* Actions *)

Init ==
    /\ pc = "idle"
    /\ fn = None
    /\ args = None
    /\ result = None
    /\ ret = None
    /\ solves = <<>>
    /\ session_state = {}
    /\ rendered = NothingRendered
    /\ opt_call = {}
    /\ calls = [c \in Callers |-> NoCall]
    /\ slsqp = {}
    /\ sim_session = {}
    /\ sim_rendered = NothingSimulated
    /\ churn_session = {}
    /\ churn_rendered = NothingTrained
    /\ band = [insights |-> {}, gauge |-> {}, message |-> {}]

(* a caller enters optimize_profit; the closures and x0 are set up *)
OptimizeCall ==
    /\ pc = "idle"
    /\ \E a \in OptimizeArgs : args' = a
    /\ fn' = "optimize_profit"
    /\ pc' = "minimize"
    /\ UNCHANGED <<result, ret, solves, pagevars, concvars, uivars>>

(* result = minimize(_profit_objective, x0, ...) *)
Minimize ==
    /\ pc = "minimize"
    /\ \E r \in minimize(args) : result' = r
    /\ solves' = Append(solves, x0)
    /\ pc' = "project"
    /\ UNCHANGED <<fn, args, ret, pagevars, concvars, uivars>>

(* a failed solve tried once more before the fallback *)
OptimizeReturnRetry ==
    /\ pc = "project"
    /\ IF ~result.success /\ Len(solves) < 2
         THEN pc' = "minimize" /\ ret' = ret
         ELSE pc' = "returned" /\ ret' = OptimizeResult(args, result)
    /\ UNCHANGED <<fn, args, result, solves, pagevars, concvars, uivars>>

(* the fallback choice, the final projection and the return *)
OptimizeReturn ==
    /\ pc = "project"
    /\ IF Raises(result)
         THEN pc' = "raised" /\ ret' = ret
         ELSE pc' = "returned" /\ ret' = OptimizeResult(args, result)
    /\ UNCHANGED <<fn, args, result, solves, pagevars, concvars, uivars>>

(* simulate_strategy: straight-line code, one step from call to return *)
Simulate ==
    /\ pc = "idle"
    /\ \E a \in SimulateArgs :
          /\ args' = a
          /\ ret' = simulate_strategy(a)
    /\ fn' = "simulate_strategy"
    /\ pc' = "returned"
    /\ UNCHANGED <<result, solves, pagevars, concvars, uivars>>

Next == OptimizeCall \/ Minimize \/ OptimizeReturn \/ Simulate

Spec == Init /\ [][Next]_vars

(* a script run that optimizes: the button was pressed, or no opt_result is
   stored yet *)
OptimizationPageOptimize ==
    /\ \E w \in PageArgs, optimize_btn \in BOOLEAN :
          /\ optimize_btn \/ ~Has(session_state, "opt_result")
          /\ \E r \in minimize(w) :
                IF Raises(r)
                THEN /\ rendered' = RenderedError
                     /\ session_state' = session_state
                     /\ opt_call' = opt_call
                ELSE /\ session_state' =
                            Put(session_state, "opt_result", OptimizeResult(w, r))
                     /\ opt_call' = {w}
                     /\ rendered' = Render(w, OptimizeResult(w, r))
    /\ UNCHANGED <<callvars, concvars, uivars>>

(* an error handler that also forgets the stored result *)
OptimizationPageRaisesDropsResult ==
    /\ \E optimize_btn \in BOOLEAN :
          optimize_btn \/ ~Has(session_state, "opt_result")
    /\ rendered' = RenderedError
    /\ session_state' = {}
    /\ opt_call' = {}
    /\ UNCHANGED <<callvars, concvars, uivars>>

(* a script run whose call raises.  optimize_profit has no raise of its own
   for these inputs; the handler of line 56 takes whatever the libraries
   under the call raise: st.error, st.stop, nothing written or rendered *)
OptimizationPageRaises ==
    /\ \E optimize_btn \in BOOLEAN :
          optimize_btn \/ ~Has(session_state, "opt_result")
    /\ rendered' = RenderedError
    /\ UNCHANGED <<session_state, opt_call, callvars, concvars, uivars>>

(* a script run after a widget changed: the button is not pressed and an
   opt_result is stored, so the stored result is rendered again *)
OptimizationPageRerun ==
    /\ Has(session_state, "opt_result")
    /\ \E w \in PageArgs :
          rendered' = Render(w, Get(session_state, "opt_result"))
    /\ UNCHANGED <<session_state, opt_call, callvars, concvars, uivars>>

PageNext ==
    OptimizationPageOptimize \/ OptimizationPageRaises \/ OptimizationPageRerun

PageSpec == Init /\ [][PageNext]_vars

(* caller c enters optimize_profit *)
CallerOptimizeCall(c) ==
    /\ calls[c].pc = "idle"
    /\ \E a \in ConcOptimizeArgs :
          calls' = [calls EXCEPT ![c] =
                       [NoCall EXCEPT !.pc = "minimize",
                                      !.fn = "optimize_profit", !.args = a]]
    /\ UNCHANGED <<slsqp, callvars, pagevars, uivars>>

(* c's result = minimize(...), computed from c's own closures *)
CallerMinimize(c) ==
    /\ calls[c].pc = "minimize"
    /\ \E r \in minimize(calls[c].args) :
          /\ \A e \in slsqp : e.args = calls[c].args => e.result = r
          /\ slsqp' = slsqp \cup {[args |-> calls[c].args, result |-> r]}
          /\ calls' = [calls EXCEPT ![c].result = r, ![c].pc = "project"]
    /\ UNCHANGED <<callvars, pagevars, uivars>>

(* c's fallback choice, final projection and return *)
CallerOptimizeReturn(c) ==
    /\ calls[c].pc = "project"
    /\ calls' = [calls EXCEPT
                    ![c].pc = IF Raises(calls[c].result) THEN "raised" ELSE "returned",
                    ![c].ret = IF Raises(calls[c].result) THEN None
                               ELSE OptimizeResult(calls[c].args, calls[c].result)]
    /\ UNCHANGED <<slsqp, callvars, pagevars, uivars>>

(* a simulate_strategy that keeps its last result in a module-level variable
   and hands it to whoever calls next *)
CallerSimulateCached(c) ==
    /\ calls[c].pc = "idle"
    /\ \E a \in ConcSimulateArgs :
          calls' = [calls EXCEPT ![c] =
                       [NoCall EXCEPT
                           !.pc = "returned", !.fn = "simulate_strategy", !.args = a,
                           !.ret = IF \E d \in Callers : calls[d].fn = "simulate_strategy"
                                   THEN calls[CHOOSE d \in Callers :
                                                calls[d].fn = "simulate_strategy"].ret
                                   ELSE simulate_strategy(a)]]
    /\ UNCHANGED <<slsqp, callvars, pagevars, uivars>>

(* caller c calls simulate_strategy *)
CallerSimulate(c) ==
    /\ calls[c].pc = "idle"
    /\ \E a \in ConcSimulateArgs :
          calls' = [calls EXCEPT ![c] =
                       [NoCall EXCEPT
                           !.pc = "returned", !.fn = "simulate_strategy", !.args = a,
                           !.ret = simulate_strategy(a)]]
    /\ UNCHANGED <<slsqp, callvars, pagevars, uivars>>

ConcNext ==
    \E c \in Callers :
        \/ CallerOptimizeCall(c)
        \/ CallerMinimize(c)
        \/ CallerOptimizeReturn(c)
        \/ CallerSimulate(c)

ConcSpec == Init /\ [][ConcNext]_vars

(* a script run that simulates: the button was pressed, or no sim_result is
   stored yet *)
SimulatorPageSimulate ==
    /\ \E w \in SimPageArgs, simulate_btn \in BOOLEAN :
          /\ simulate_btn \/ ~Has(sim_session, "sim_result")
          /\ sim_session' = Put(sim_session, "sim_result", simulate_strategy(w))
          /\ sim_rendered' = SimRender(w, simulate_strategy(w))
    /\ UNCHANGED <<callvars, pagevars, concvars, churnvars, band>>

(* a script run after a widget changed: the stored result is rendered *)
SimulatorPageRerun ==
    /\ Has(sim_session, "sim_result")
    /\ \E w \in SimPageArgs :
          sim_rendered' = SimRender(w, Get(sim_session, "sim_result"))
    /\ UNCHANGED <<sim_session, callvars, pagevars, concvars, churnvars, band>>

SimPageNext == SimulatorPageSimulate \/ SimulatorPageRerun

SimPageSpec == Init /\ [][SimPageNext]_vars

(* a training run that stores the metrics and not the dataset *)
ChurnPageTrainResultOnly ==
    /\ \E n \in ChurnSamples, train_btn \in BOOLEAN :
          /\ train_btn \/ ~Has(churn_session, "churn_result")
          /\ LET df == load_churn(n)
                 ss == Put(churn_session, "churn_result", train_churn_model(df))
             IN  /\ churn_session' = ss
                 /\ churn_rendered' = ChurnRender(n, ss)
    /\ UNCHANGED <<callvars, pagevars, concvars, simpagevars, band>>

(* a script run that trains: the button was pressed, or no churn_result is
   stored yet; training succeeds and both entries are written *)
ChurnPageTrain ==
    /\ \E n \in ChurnSamples, train_btn \in BOOLEAN :
          /\ train_btn \/ ~Has(churn_session, "churn_result")
          /\ LET df == load_churn(n)
                 ss == Put(Put(churn_session, "churn_result", train_churn_model(df)),
                           "churn_data", df)
             IN  /\ churn_session' = ss
                 /\ churn_rendered' = ChurnRender(n, ss)
    /\ UNCHANGED <<callvars, pagevars, concvars, simpagevars, band>>

(* a script run whose training raises (the fit, or joblib.dump to /tmp):
   st.error and st.stop, nothing written *)
ChurnPageTrainFails ==
    /\ \E n \in ChurnSamples, train_btn \in BOOLEAN :
          /\ train_btn \/ ~Has(churn_session, "churn_result")
          /\ churn_rendered' = ChurnRenderedError(n)
    /\ UNCHANGED <<churn_session, callvars, pagevars, concvars, simpagevars, band>>

(* a script run after the slider moved: no training, the stored metrics and
   dataset are rendered *)
ChurnPageRerun ==
    /\ Has(churn_session, "churn_result")
    /\ \E n \in ChurnSamples : churn_rendered' = ChurnRender(n, churn_session)
    /\ UNCHANGED <<churn_session, callvars, pagevars, concvars, simpagevars, band>>

ChurnNext == ChurnPageTrain \/ ChurnPageTrainFails \/ ChurnPageRerun

ChurnSpec == Init /\ [][ChurnNext]_vars

(* app.py hands a score to generate_executive_insights *)
GenerateExecutiveInsights ==
    /\ \E s \in RiskScores :
          band' = [band EXCEPT !.insights =
                      {[score |-> s, out |-> generate_executive_insights(s)]}]
    /\ UNCHANGED <<callvars, pagevars, concvars, simpagevars, churnvars>>

(* a page hands a score to risk_gauge *)
RiskGauge ==
    /\ \E s \in RiskScores :
          band' = [band EXCEPT !.gauge = {[score |-> s, out |-> risk_gauge(s)]}]
    /\ UNCHANGED <<callvars, pagevars, concvars, simpagevars, churnvars>>

(* the Strategy Simulator page words the risk of a result *)
RiskInterpretation ==
    /\ \E s \in RiskScores :
          band' = [band EXCEPT !.message = {[score |-> s, out |-> risk_message(s)]}]
    /\ UNCHANGED <<callvars, pagevars, concvars, simpagevars, churnvars>>

BandNext == GenerateExecutiveInsights \/ RiskGauge \/ RiskInterpretation

BandSpec == Init /\ [][BandNext]_vars

----------------------------------------------------------------------------
(* Properties *)

OptReturned == fn = "optimize_profit" /\ pc = "returned"

SimReturned == fn = "simulate_strategy" /\ pc = "returned"

ValidOptArgs(a) ==
    /\ a.base_revenue > 0 /\ a.base_cost > 0
    /\ a.budget_limit >= 0 /\ a.risk_threshold >= 0

OptResultKeys ==
    {"optimized_marketing_increase_pct", "optimized_price_change_pct",
     "optimized_hiring_count", "projected_revenue", "projected_cost",
     "projected_profit", "risk_score", "optimizer_success", "optimizer_message"}

(* the returned decision vector, back in thousandths *)
ReturnedVector(r) ==
    <<(Milli \div 100) * r.optimized_marketing_increase_pct,
      (Milli \div 100) * r.optimized_price_change_pct,
      Milli * r.optimized_hiring_count>>

(* what one tolerance step in every coordinate can add to a constraint *)
RiskTolerance == (4 + 12 + 3) * SolverTol

BudgetTolerance(a) == (2 * a.base_cost + (MoneyScale \div Milli) * avg_emp_cost) * SolverTol

(* the initial guess (5, 2, 2) in cents: 1.045*base_revenue,
   1.05*base_cost + 120000 *)
InitialRevenueCents(a) == 1045000 * a.base_revenue

InitialCostCents(a) == 1050000 * a.base_cost + 12000000

(* C1: for positive base_revenue and base_cost and non-negative budget_limit
   and risk_threshold, a call of optimize_profit never ends in an error: it
   can always take its next step, and it ends by returning the result
   record, whether the solver reported success or failure. *)
C1_NeverRaises ==
    (fn = "optimize_profit" /\ ValidOptArgs(args)) =>
        /\ pc # "raised"
        /\ (pc \in {"minimize", "project"} => ENABLED Next)
        /\ (pc = "returned" =>
               /\ DOMAIN ret = OptResultKeys
               /\ ret.optimizer_success \in BOOLEAN)

C1_Witness ==
    /\ OptReturned /\ ValidOptArgs(args)
    /\ ~result.success /\ result.x = NaN
    /\ ~ret.optimizer_success

(* C2: when the solver reports failure, optimize_profit returns
   optimizer_success = false with the initial guess (5, 2, 2) as the decision
   vector and revenue 1.045*base_revenue, cost 1.05*base_cost + 120000, their
   difference as profit and risk 5.0; when the solver reports success it
   returns optimizer_success = true and the solver's point (to the printed
   precision) as the decision vector. *)
C2_FallbackIsInitialGuess ==
    OptReturned =>
        /\ ret.optimizer_success = result.success
        /\ ~result.success =>
              /\ ret.optimized_marketing_increase_pct = 500
              /\ ret.optimized_price_change_pct = 200
              /\ ret.optimized_hiring_count = 2
              /\ ret.projected_revenue = InitialRevenueCents(args)
              /\ ret.projected_cost = InitialCostCents(args)
              /\ ret.projected_profit =
                     InitialRevenueCents(args) - InitialCostCents(args)
              /\ ret.risk_score = 50
        /\ result.success =>
              \A i \in 1..2 :
                  2 * Abs(ReturnedVector(ret)[i] - result.x[i]) <= Milli \div 100

C2_Witness ==
    /\ OptReturned /\ ~result.success
    /\ result.x # NaN /\ result.x # x0
    /\ ret.optimized_hiring_count = 2

(* C3 (as stated): whenever optimize_profit returns optimizer_success = true,
   the returned decision vector (marketing, price, rounded hiring count)
   satisfies both constraints up to the solver tolerance:
   0.4*|marketing| + 1.2*|price| + 0.3*hires <= risk_threshold and
   base_cost*marketing/100 + hires*60000 <= budget_limit. *)
C3_ReturnedVectorFeasible ==
    (OptReturned /\ ret.optimizer_success) =>
        /\ OptRisk(ReturnedVector(ret))
              <= RiskScale * args.risk_threshold + RiskTolerance
        /\ AdditionalSpend(args, ReturnedVector(ret))
              <= MoneyScale * args.budget_limit + BudgetTolerance(args)

(* C4 (as stated): for budget_limit = 0 and a positive baseline the returned
   result has additional spend <= budget_limit + tolerance, for every outcome
   of the solver. *)
C4_ZeroBudgetNoSpend ==
    (OptReturned /\ ValidOptArgs(args) /\ args.budget_limit = 0) =>
        AdditionalSpend(args, ReturnedVector(ret)) <= BudgetTolerance(args)

(* C5 (as stated): the reported projected_cost and projected_profit are the
   model formulas evaluated with the rounded hiring count that is reported
   in optimized_hiring_count, not with the solver's fractional value. *)
C5_CostUsesRoundedHires ==
    OptReturned =>
        LET x == ChosenPoint(result)
            y == <<x[1], x[2], Milli * ret.optimized_hiring_count>>
        IN  /\ ret.projected_cost = RoundMoney(OptCost(args, y))
            /\ ret.projected_profit =
                   RoundMoney(OptRevenue(args, y) - OptCost(args, y))

(* C6: in every result of optimize_profit, success or fallback,
   optimized_hiring_count is a whole number that differs from the chosen
   point's hires by at most 0.5, and lies in 0..50. *)
C6_HiringCountRounded ==
    OptReturned =>
        /\ ret.optimized_hiring_count \in 0..50
        /\ 2 * Abs(Milli * ret.optimized_hiring_count - ChosenPoint(result)[3])
              <= Milli

C6_Witness ==
    /\ OptReturned /\ result.success
    /\ result.x[3] % Milli # 0
    /\ ret.optimized_hiring_count = 0

(* C7: with risk_threshold = 100 and a budget_limit that no point of the box
   can exhaust, the returned projected_profit is at least the profit of the
   initial guess (5, 2, 2), 1.045*base_revenue - 1.05*base_cost - 120000, for
   every positive baseline and every solver outcome. *)
C7_ProfitAtLeastInitialGuess ==
    (/\ OptReturned /\ ValidOptArgs(args)
     /\ args.risk_threshold = 100
     /\ MoneyScale * args.budget_limit
            >= AdditionalSpend(args, <<50 * Milli, 0, 50 * Milli>>))
        => ret.projected_profit
              >= InitialRevenueCents(args) - InitialCostCents(args)

C7_Witness ==
    /\ OptReturned /\ result.success
    /\ args.risk_threshold = 100
    /\ MoneyScale * args.budget_limit
           >= AdditionalSpend(args, <<50 * Milli, 0, 50 * Milli>>)
    /\ ret.projected_profit > InitialRevenueCents(args) - InitialCostCents(args)

(* C9: every decision vector returned by optimize_profit, on success and on
   fallback, lies in the fixed box: marketing in [0, 50], price in [-10, 15],
   hiring count in [0, 50]; the call takes no argument that could change it. *)
C9_ReturnedVectorInBox ==
    OptReturned =>
        /\ ret.optimized_marketing_increase_pct \in 0..5000
        /\ ret.optimized_price_change_pct \in -1000..1500
        /\ ret.optimized_hiring_count \in 0..50
        /\ DOMAIN args =
              {"base_revenue", "base_cost", "budget_limit", "risk_threshold"}

C9_Witness ==
    /\ OptReturned /\ result.success
    /\ ret.optimized_marketing_increase_pct = 5000
    /\ ret.optimized_price_change_pct = 1500

(* C10: for every valid baseline and every churn_rate, simulate_strategy
   with marketing, price, hiring and retention all 0 returns
   projected_revenue = base_revenue and projected_cost = base_cost, and the
   three deltas are 0. *)
C10_ZeroDecisionIdentity ==
    (/\ SimReturned
     /\ args.base_revenue > 0 /\ args.base_cost > 0
     /\ args.marketing_increase_percent = 0 /\ args.price_change_percent = 0
     /\ args.employee_hiring_count = 0 /\ args.retention_investment = 0)
        => /\ ret.projected_revenue = 1000000 * args.base_revenue
           /\ ret.projected_cost = 1000000 * args.base_cost
           /\ ret.revenue_delta = 0
           /\ ret.cost_delta = 0
           /\ ret.profit_delta = 0

C10_Witness ==
    /\ SimReturned
    /\ args.marketing_increase_percent = 0 /\ args.price_change_percent = 0
    /\ args.employee_hiring_count = 0 /\ args.retention_investment = 0
    /\ args.churn_rate = 40
    /\ ret.projected_revenue = ret.base_revenue

(* the money step every delta of the modelled inputs is a whole multiple
   of: $500, in cents *)
RoiGrain == 50 * Milli

(* C11: simulate_strategy returns roi_percent exactly 0 whenever
   incremental_investment = projected_cost - base_cost is <= 0, whatever the
   revenue delta; when it is > 0, roi_percent is
   (projected_profit - base_profit) / incremental_investment * 100 to the
   two decimals round() keeps. *)
C11_RoiGuarded ==
    SimReturned =>
        LET investment == ret.projected_cost - ret.base_cost
            gain == ret.projected_profit - ret.base_profit
            d == investment \div RoiGrain
            n == gain \div RoiGrain
        IN  /\ investment % RoiGrain = 0 /\ gain % RoiGrain = 0
            /\ investment <= 0 => ret.roi_percent = 0
            /\ investment > 0 => 2 * Abs(100 * 100 * n - ret.roi_percent * d) <= d

C11_Witness ==
    /\ SimReturned
    /\ ret.projected_cost < ret.base_cost
    /\ ret.revenue_delta > 0
    /\ ret.roi_percent = 0

(* C12 (as stated): the risk_score returned by simulate_strategy is in
   [0, 100] for all inputs, and so is the risk_score returned by
   optimize_profit. *)
C12_RiskScoreInRange ==
    (SimReturned \/ OptReturned) => ret.risk_score \in 0..(100 * 10)

(* C13: simulate_strategy with base_revenue 10,000,000, base_cost 7,000,000,
   marketing 10, price 5, hires 5, retention_investment 100,000 and
   churn_rate 0.15 returns projected_revenue 11,045,000, projected_cost
   8,100,000, profit_delta -55,000, roi_percent -5.0 and risk_score 16.5. *)
C13_WorkedExample ==
    (/\ SimReturned
     /\ args.base_revenue = 1000 /\ args.base_cost = 700
     /\ args.marketing_increase_percent = 10 * Milli
     /\ args.price_change_percent = 5 * Milli
     /\ args.employee_hiring_count = 5
     /\ args.retention_investment = 10
     /\ args.avg_employee_cost = avg_emp_cost
     /\ args.churn_rate = 15)
        => /\ ret.projected_revenue = 11045000 * 100
           /\ ret.projected_cost = 8100000 * 100
           /\ ret.profit_delta = -55000 * 100
           /\ ret.roi_percent = -5 * 100
           /\ ret.risk_score = 165

C13_Witness ==
    /\ SimReturned
    /\ args.base_revenue = 1000 /\ args.base_cost = 700
    /\ args.marketing_increase_percent = 10 * Milli
    /\ args.price_change_percent = 5 * Milli
    /\ args.employee_hiring_count = 5
    /\ args.retention_investment = 10
    /\ args.churn_rate = 15
    /\ ret.profit_delta < 0

(* C14 (as stated): a call of simulate_strategy or of optimize_profit with a
   non-positive base_revenue or base_cost is rejected at entry: it never
   reaches the solver or a projection, it ends in an error. *)
C14_InvalidBaselineRejected ==
    (/\ fn \in {"simulate_strategy", "optimize_profit"}
     /\ (args.base_revenue <= 0 \/ args.base_cost <= 0))
        => pc = "raised"

(* the simulate_strategy call for the optimizer's decision x: whole hires,
   retention_investment = 0, avg_employee_cost = 60000 *)
SimArgsOf(a, x) ==
    [base_revenue |-> a.base_revenue, base_cost |-> a.base_cost,
     marketing_increase_percent |-> x[1],
     price_change_percent |-> x[2],
     employee_hiring_count |-> x[3] \div Milli,
     retention_investment |-> 0,
     avg_employee_cost |-> avg_emp_cost,
     churn_rate |-> 15]

(* C15: for every baseline and every decision with a whole number of hires
   that the optimizer evaluates, its objective is minus the simulator's
   projected profit at that decision with retention_investment = 0 and
   avg_employee_cost = 60000, and the revenue, cost and profit of its final
   projection equal the simulator's projected_revenue, projected_cost and
   projected_profit. *)
C15_OptimizerMatchesSimulator ==
    (fn = "optimize_profit" /\ pc \in {"minimize", "project", "returned"}) =>
        /\ \A c \in Candidates(args) \cup {x0} :
              c[3] % Milli = 0 =>
                  profit_objective(args, c) =
                      -(SimRevenue(SimArgsOf(args, c)) - SimCost(SimArgsOf(args, c)))
        /\ (pc = "returned" /\ ChosenPoint(result)[3] % Milli = 0) =>
              LET s == simulate_strategy(SimArgsOf(args, ChosenPoint(result)))
              IN  /\ ret.projected_revenue = s.projected_revenue
                  /\ ret.projected_cost = s.projected_cost
                  /\ ret.projected_profit = s.projected_profit

C15_Witness ==
    /\ OptReturned /\ result.success
    /\ result.x[1] > 0 /\ result.x[2] > 0
    /\ result.x[3] % Milli = 0
    /\ ret.projected_revenue > 1000000 * args.base_revenue
    /\ ret.projected_cost > 1000000 * args.base_cost

(* C16: for the same marketing, price and hires the simulator's unclamped
   risk is the optimizer's unclamped risk plus
   0.05 * (retention_investment / 1000); the two scores coincide when
   retention_investment = 0, and the simulator's is never the lower one when
   retention_investment >= 0. *)
C16_RiskDiffersByRetentionTerm ==
    SimReturned =>
        LET x == <<args.marketing_increase_percent, args.price_change_percent,
                   Milli * args.employee_hiring_count>>
        IN  /\ SimRiskRaw(args) = OptRisk(x) + 5 * Milli * args.retention_investment
            /\ args.retention_investment = 0 => ret.risk_score = OptRiskScore(x)
            /\ args.retention_investment >= 0 => ret.risk_score >= OptRiskScore(x)

C16_Witness ==
    /\ SimReturned
    /\ args.retention_investment > 0
    /\ args.employee_hiring_count > 0
    /\ ret.risk_score
          > OptRiskScore(<<args.marketing_increase_percent,
                           args.price_change_percent,
                           Milli * args.employee_hiring_count>>)

(* the keys of a ProjectionResult *)
ProjectionResultKeys ==
    {"projected_revenue", "projected_cost", "projected_profit",
     "revenue_delta", "cost_delta", "profit_delta", "roi_percent", "risk_score"}

(* C18 (as stated): the result of optimize_profit carries the complete
   ProjectionResult of the chosen decision vector next to the decision
   vector, optimizer_success and optimizer_message. *)
C18_CarriesProjectionResult ==
    OptReturned =>
        ProjectionResultKeys
            \cup {"optimized_marketing_increase_pct", "optimized_price_change_pct",
                  "optimized_hiring_count", "optimizer_success", "optimizer_message"}
            \subseteq DOMAIN ret

(* C17 (as stated): the Optimization page shows a success state only when
   the displayed result has optimizer_success = true; when it is false the
   page shows the warning state and no message that the optimization
   identified an improvement within the constraints. *)
C17_SuccessOnlyWhenSolved ==
    (Has(session_state, "opt_result") /\ rendered.status_icon # None) =>
        LET r == Get(session_state, "opt_result")
        IN  /\ rendered.status_icon = "check_mark" => r.optimizer_success
            /\ rendered.interpretation = "st.success" => r.optimizer_success
            /\ ~r.optimizer_success =>
                  /\ rendered.status_icon = "warning_sign"
                  /\ rendered.interpretation = "st.warning"

(* the results a call with arguments a can return when it runs alone *)
AloneResults(f, a) ==
    IF f = "simulate_strategy" THEN {simulate_strategy(a)}
    ELSE {OptimizeResult(a, r) : r \in {q \in minimize(a) : ~Raises(q)}}

(* C19: the result of a call depends only on that call's arguments: a call
   interleaved with other callers' calls returns a result it can return when
   it runs alone, and two calls of the same function with equal arguments
   return equal results. *)
C19_CallsIndependent ==
    /\ \A c \in Callers :
          calls[c].pc = "returned" =>
              calls[c].ret \in AloneResults(calls[c].fn, calls[c].args)
    /\ \A c, d \in Callers :
          (/\ calls[c].pc = "returned" /\ calls[d].pc = "returned"
           /\ calls[c].fn = calls[d].fn
           /\ calls[c].args = calls[d].args)
              => calls[c].ret = calls[d].ret

C19_Witness ==
    /\ calls["session_a"].pc = "returned" /\ calls["session_b"].pc = "project"
    /\ calls["session_a"].fn = "optimize_profit"
    /\ calls["session_b"].fn = "optimize_profit"
    /\ calls["session_a"].args = calls["session_b"].args
    /\ calls["session_a"].ret.optimizer_success

(* C20: within one call of optimize_profit the solver is invoked exactly
   once, from the starting point (5, 2, 2): no solve before the call reaches
   minimize, and from then until the result is returned, after a failed
   solve as after a successful one, that one solve and no other. *)
C20_SolvedOnce ==
    fn = "optimize_profit" =>
        /\ pc = "minimize" => solves = <<>>
        /\ pc \in {"project", "returned", "raised"} =>
              solves = <<<<5 * Milli, 2 * Milli, 2 * Milli>>>>

C20_Witness ==
    /\ OptReturned /\ ~result.success
    /\ result.x # NaN /\ result.x # x0
    /\ Len(solves) = 1

(* the points offered to the solver that lie in the feasible region *)
FeasibleCandidates(a) == {c \in Candidates(a) : InBounds(c) /\ Feasible(a, c)}

(* C21: every local maximum of profit over the feasible region (the box
   intersected with risk <= risk_threshold and additional spend <=
   budget_limit) is a global maximum over that region, for every positive
   baseline and non-negative constraints: no feasible point has a higher
   profit than a locally optimal one. *)
C21_LocalMaximaAreGlobal ==
    (fn = "optimize_profit" /\ pc = "minimize" /\ ValidOptArgs(args)) =>
        \A c \in Candidates(args) :
            LocalMinimum(args, c) =>
                \A d \in FeasibleCandidates(args) :
                    profit_objective(args, c) <= profit_objective(args, d)

C21_Witness ==
    /\ fn = "optimize_profit" /\ pc = "minimize" /\ ValidOptArgs(args)
    /\ \E c \in Candidates(args) :
          /\ LocalMinimum(args, c)
          /\ c[1] > 0 /\ c[2] > 0 /\ c[2] < bounds[2][2]
          /\ risk_constraint(args, c) < 4
          /\ \E d \in FeasibleCandidates(args) :
                profit_objective(args, c) < profit_objective(args, d)

(* the feasible points offered to the solver that no other one beats *)
ProfitMaximizers(a) ==
    {c \in FeasibleCandidates(a) :
        \A d \in FeasibleCandidates(a) :
            profit_objective(a, c) <= profit_objective(a, d)}

(* C26: for every positive baseline with base_revenue < 2*base_cost and
   every risk_threshold >= 0 and budget_limit >= 0, every profit-maximizing
   feasible decision has marketing = 0, hires = 0 and
   price = min(15, risk_threshold/1.2), to the step of the grid; for every
   positive baseline every profit-maximizing feasible decision has
   hires = 0. *)
C26_MaximizerShape ==
    (fn = "optimize_profit" /\ pc = "minimize" /\ ValidOptArgs(args)) =>
        \A c \in ProfitMaximizers(args) \cup {d \in Candidates(args) : LocalMinimum(args, d)} :
            /\ c[3] = 0
            /\ args.base_revenue < 2 * args.base_cost =>
                  /\ c[1] = 0
                  /\ c[2] = Min(15 * Milli, (10 * Milli * args.risk_threshold) \div 12)

C26_Witness ==
    /\ fn = "optimize_profit" /\ pc = "minimize" /\ ValidOptArgs(args)
    /\ args.base_revenue < 2 * args.base_cost
    /\ args.risk_threshold = 5
    /\ <<0, 4166, 0>> \in ProfitMaximizers(args)

(* risk_threshold >= 5.0 and budget_limit >= 0.05*base_cost + 120000, with
   budget_limit and base_cost in $10,000 *)
InitialGuessAllowed(a) ==
    a.risk_threshold >= 5 /\ 20 * a.budget_limit >= a.base_cost + 20 * 12

(* C27: the initial guess (5, 2, 2) satisfies both constraints exactly when
   risk_threshold >= 5.0 and budget_limit >= 0.05*base_cost + 120000;
   outside that range the decision vector of a fallback result violates at
   least one constraint. *)
C27_InitialGuessFeasibility ==
    (fn = "optimize_profit" /\ pc # "idle") =>
        /\ Feasible(args, x0) <=> InitialGuessAllowed(args)
        /\ (pc = "returned" /\ ~result.success /\ ~InitialGuessAllowed(args)) =>
              \/ risk_constraint(args, ReturnedVector(ret)) < 0
              \/ budget_constraint(args, ReturnedVector(ret)) < 0

C27_Witness ==
    /\ OptReturned /\ ~result.success
    /\ args.risk_threshold = 5
    /\ 20 * args.budget_limit = args.base_cost + 20 * 12
    /\ risk_constraint(args, ReturnedVector(ret)) = 0
    /\ budget_constraint(args, ReturnedVector(ret)) = 0

(* the corner of the box with every coordinate at its upper bound *)
UpperCorner == <<bounds[1][2], bounds[2][2], bounds[3][2]>>

(* C28: for every decision inside the optimizer's box the unclamped risk
   0.4*|marketing| + 1.2*|price| + 0.3*hires is at most 53, the value at
   marketing 50, price 15, hires 50; so the min(100, ...) clamp never
   changes the optimizer's risk_score, and with risk_threshold >= 53 the
   risk constraint holds at every point of the box. *)
C28_RiskAtMost53 ==
    (fn = "optimize_profit" /\ pc # "idle") =>
        /\ UpperCorner = <<50 * Milli, 15 * Milli, 50 * Milli>>
        /\ OptRisk(UpperCorner) = 53 * RiskScale
        /\ \A c \in Candidates(args) \cup {UpperCorner} :
              /\ InBounds(c) => OptRisk(c) <= 53 * RiskScale
              /\ (InBounds(c) /\ args.risk_threshold >= 53) =>
                    risk_constraint(args, c) >= 0
        /\ pc = "returned" =>
              /\ OptRisk(ChosenPoint(result)) <= 53 * RiskScale
              /\ ret.risk_score =
                     RoundHalfEven(OptRisk(ChosenPoint(result)), RiskScale \div 10)
              /\ ret.risk_score <= 53 * 10

C28_Witness ==
    /\ OptReturned /\ result.success
    /\ args.risk_threshold >= 53
    /\ result.x[1] = 50 * Milli /\ result.x[2] = 15 * Milli
    /\ ret.risk_score >= 38 * 10

Sign(n) == IF n > 0 THEN 1 ELSE IF n < 0 THEN -1 ELSE 0

(* C29: in every result of simulate_strategy
   profit_delta = revenue_delta - cost_delta and
   projected_profit = base_profit + profit_delta, and when cost_delta > 0
   the sign of roi_percent is the sign of profit_delta.  The modelled
   amounts are whole cents, so the returned figures are the unrounded
   ones. *)
C29_DeltaIdentities ==
    SimReturned =>
        /\ SimRevenue(args) % 20 = 0 /\ SimCost(args) % 20 = 0
        /\ ret.projected_revenue = (SimRevenue(args) \div 20) * 100
        /\ ret.projected_cost = (SimCost(args) \div 20) * 100
        /\ ret.profit_delta = ret.revenue_delta - ret.cost_delta
        /\ ret.projected_profit = ret.base_profit + ret.profit_delta
        /\ ret.cost_delta > 0 => Sign(ret.roi_percent) = Sign(ret.profit_delta)

C29_Witness ==
    /\ SimReturned
    /\ ret.cost_delta > 0
    /\ ret.revenue_delta > 0
    /\ ret.profit_delta < 0
    /\ ret.roi_percent < 0

(* C22 (as stated): after any sequence of input changes, reruns and button
   presses on the Optimization page, the profit improvement shown is the
   displayed result's projected_profit minus the base profit of the
   base_revenue and base_cost passed to the call that produced it, and the
   risk threshold shown is the one passed to that call. *)
C22_ResultPairedWithItsInputs ==
    (Has(session_state, "opt_result") /\ rendered.status_icon # None) =>
        \A w \in opt_call :
            /\ rendered.profit_improvement =
                   Get(session_state, "opt_result").projected_profit
                       - 1000000 * (w.base_revenue - w.base_cost)
            /\ rendered.risk_threshold = w.risk_threshold

(* C23: on the Optimization page a run whose call to optimize_profit raises
   reports the error and writes nothing: a stored opt_result is left as it
   was, and when none is stored none is stored afterwards, so that the next
   run cannot skip the optimization. *)
C23_ErrorWritesNothing ==
    /\ [](~Has(session_state, "opt_result") => ~ENABLED OptimizationPageRerun)
    /\ [][rendered'.error =>
            /\ session_state' = session_state
            /\ rendered'.status_icon = None
            /\ rendered'.interpretation = None]_vars

C23_Witness ==
    /\ rendered.error
    /\ Has(session_state, "opt_result")
    /\ Get(session_state, "opt_result").optimizer_success

(* C24: on the Churn Prediction page, after any sequence of runs, with
   training succeeding or failing, churn_result is in the session state
   only if churn_data is too, and the dataset preview is never rendered
   from a missing dataset. *)
C24_ResultImpliesData ==
    /\ Has(churn_session, "churn_result") => Has(churn_session, "churn_data")
    /\ churn_rendered.preview # "AttributeError"
    /\ churn_rendered.preview = "dataframe" =>
          churn_rendered.preview_of = churn_rendered.metrics_of

C24_Witness ==
    /\ churn_rendered.error
    /\ Has(churn_session, "churn_result")
    /\ Has(churn_session, "churn_data")

(* C25 (as stated): whenever the Strategy Simulator page shows the
   'Negative ROI ... results in a net loss' message, the displayed result
   has profit_delta < 0. *)
C25_NetLossMeansLoss ==
    (Has(sim_session, "sim_result") /\ sim_rendered.roi_message = "Negative ROI")
        => Get(sim_session, "sim_result").profit_delta < 0

(* C30: the risk bands are the same in the three places: for every score
   generate_executive_insights says Low below 20, Moderate in [20, 40),
   High in [40, 65) and Critical from 65 up, and adds the Risk Committee
   item exactly for scores >= 40; the gauge's bar colour and its steps
   change at 20, 40 and 65; the Strategy Simulator page says Elevated from
   40 and Critical from 65. *)
C30_SameRiskBands ==
    /\ \A i \in band.insights :
          /\ i.out.risk_level = "Low" <=> i.score < 200
          /\ i.out.risk_level = "Moderate" <=> (200 <= i.score /\ i.score < 400)
          /\ i.out.risk_level = "High" <=> (400 <= i.score /\ i.score < 650)
          /\ i.out.risk_level = "Critical" <=> 650 <= i.score
          /\ i.out.risk_committee_item <=> 400 <= i.score
    /\ \A g \in band.gauge :
          /\ g.out.bar_color = "#00F5A0" <=> g.score < 200
          /\ g.out.bar_color = "#FFC107" <=> (200 <= g.score /\ g.score < 400)
          /\ g.out.bar_color = "#FF8C00" <=> (400 <= g.score /\ g.score < 650)
          /\ g.out.bar_color = "#FF4B4B" <=> 650 <= g.score
          /\ {st[1] : st \in g.out.steps} = {0, 200, 400, 650}
          /\ {st[2] : st \in g.out.steps} = {200, 400, 650, 1000}
    /\ \A m \in band.message :
          /\ m.out = "Critical" <=> 650 <= m.score
          /\ m.out = "Elevated" <=> (400 <= m.score /\ m.score < 650)
          /\ m.out = "Acceptable" <=> m.score < 400

C30_Witness ==
    /\ \E i \in band.insights :
          i.score = 400 /\ i.out.risk_level = "High" /\ i.out.risk_committee_item
    /\ \E g \in band.gauge : g.score = 400 /\ g.out.bar_color = "#FF8C00"
    /\ \E m \in band.message : m.score = 400 /\ m.out = "Elevated"

=============================================================================
